---- MODULE Spec2Model ----
(***************************************************************************)
(* Model of generate_weekmenu.py: the weekly run that reads the last plan  *)
(* event of the week-menu calendar, loads the recipes of the spreadsheet,  *)
(* builds the 7-day events table of two calendars, chooses a recipe for    *)
(* every day, writes the date of use back to the spreadsheet and inserts   *)
(* the plan into the week-menu calendar.                                   *)
(*                                                                         *)
(* Dates are day numbers of the year 2020 (0 = Wednesday 2020-01-01).      *)
(* Strings that carry a date are modelled by their fields: the cell of the *)
(* spreadsheet written with '%d-%m-%Y' is <<day, month, year>>, the ISO    *)
(* date of a calendar event is <<year, month, day>>.                       *)
(***************************************************************************)
EXTENDS Integers, Sequences, FiniteSets

\* ------------------------------------------------------------------ bounds
\* last day "today" can reach (2020-12-03)
MaxDay == 337
\* number of runs of the script that are followed
MaxRuns == 2
\* number of recipes in the spreadsheet (rows 2 .. NbRecipes + 1)
NbRecipes == 6

\* --------------------------------------------------------- the calendar year
MonthLen == <<31, 29, 31, 30, 31, 30, 31, 31, 30, 31, 30, 31>>

\* days of the year before the first of month m
CumDays(m) == <<0, 31, 60, 91, 121, 152, 182, 213, 244, 274, 305, 335>>[m]

\* datetime.date(2020, m, d) as a day number
DayNumber(d, m) == CumDays(m) + d - 1

MonthOf(n) == CHOOSE m \in 1..12 : CumDays(m) <= n /\ n < CumDays(m) + MonthLen[m]
DayOf(n) == n - CumDays(MonthOf(n)) + 1

ValidDate(d, m) == m \in 1..12 /\ d >= 1 /\ d <= MonthLen[m]

WeekdayNames == <<"Monday", "Tuesday", "Wednesday", "Thursday", "Friday", "Saturday", "Sunday">>
\* x.strftime('%A')
WeekdayName(n) == WeekdayNames[((n + 2) % 7) + 1]

\* pandas NaT / NaN of a date column
NaT == 0 - 1
\* NaN of a label or recipe column
NaN == "NaN"

\* i.strftime('%d-%m-%Y'): the text written to the sheet
strftime_dmY(n) == <<DayOf(n), MonthOf(n), 2020>>

\* pd.to_datetime(cell, dayfirst=True): a blank cell is NaT; the first field
\* is the day whenever that is a date, otherwise the fields are swapped
to_datetime_dayfirst(cell) ==
    IF cell = <<>> THEN NaT
    ELSE IF ValidDate(cell[1], cell[2]) THEN DayNumber(cell[1], cell[2])
    ELSE IF ValidDate(cell[2], cell[1]) THEN DayNumber(cell[2], cell[1])
    ELSE NaT

\* date.isoformat() of the calendar API
isoformat(n) == <<2020, MonthOf(n), DayOf(n)>>
\* datetime.strptime(s, '%Y-%m-%d').date()
strptime_Ymd(s) == DayNumber(s[3], s[2])

\* ------------------------------------------------------------ configuration
\* cfg.NB_DAYS_BEFORE
NB_DAYS_BEFORE == 2
\* cfg.TRADITIONS: weekday -> recipe
TRADITIONS == [wd \in {"Monday", "Tuesday", "Wednesday", "Thursday", "Sunday"} |-> "soup"]
\* cfg.ALL_EVENTS, cfg.FREE_EVENTS
ALL_EVENTS == {"FREE", "WORK"}
FREE_EVENTS == {"FREE"}

\* str.upper() on the summaries that occur: "free", "FREE", "WORK", "dentist"
upper(s) == IF s = "free" THEN "FREE" ELSE IF s = "dentist" THEN "DENTIST" ELSE s

\* ------------------------------------------------------------- the recipes
\* column row_number of the sheet
Rows == 2..(NbRecipes + 1)

\* ------------------------------------------------------------ calendar code
SeqToSet(s) == {s[k] : k \in 1..Len(s)}

RECURSIVE unfold_events_list(_, _)
\* events_list: <<start, end, label>> with ISO dates; now: datetime.now().date()
unfold_events_list(events_list, now) ==
    IF events_list = <<>> THEN <<>>
    ELSE LET e == Head(events_list)
             start == strptime_Ymd(e[1])
             end == strptime_Ymd(e[2])
             delta_days == end - start
             days == [d \in 1..delta_days |-> start + (d - 1)]
             kept == SelectSeq(days, LAMBDA unfolded_day :
                                  unfolded_day >= now /\ unfolded_day <= now + 6)
             here == IF delta_days > 1
                     THEN [k \in 1..Len(kept) |-> <<kept[k], e[3]>>]
                     ELSE << <<start, e[3]>> >>
         IN here \o unfold_events_list(Tail(events_list), now)

\* items: the events the API lists, [start, end, summary]
get_events_by_calendarId(items, now) ==
    LET sel == SelectSeq(items, LAMBDA e : upper(e.summary) \in ALL_EVENTS)
        events_list == [k \in 1..Len(sel) |-> <<sel[k].start, sel[k].end, upper(sel[k].summary)>>]
    IN unfold_events_list(events_list, now)

\* the first event of the list instead of the last
get_date_first_event(cal) == CHOOSE d \in SeqToSet(cal) : \A x \in SeqToSet(cal) : d <= x

\* events_result.get('items', [])[-1]['start']['date'] with orderBy='startTime'
get_date_last_event(cal) == CHOOSE d \in SeqToSet(cal) : \A x \in SeqToSet(cal) : x <= d

\* rows of events_df_1.merge(events_df_2, on='date', how='outer'), as pairs of
\* positions <<i, j>> in the two lists (0: no row on that side)
MergeOuter(l1, l2) ==
    {<<i, j>> \in (1..Len(l1)) \X (1..Len(l2)) : l1[i][1] = l2[j][1]}
    \cup {<<i, 0>> : i \in {i \in 1..Len(l1) : \A j \in 1..Len(l2) : l1[i][1] # l2[j][1]}}
    \cup {<<0, j>> : j \in {j \in 1..Len(l2) : \A i \in 1..Len(l1) : l1[i][1] # l2[j][1]}}

MergedDate(l1, l2, p) == IF p[1] # 0 THEN l1[p[1]][1] ELSE l2[p[2]][1]

\* the frame create_events_df returns for the window starting at start_day;
\* reindex raises ValueError when the date index holds a date twice
create_events_df(events_list_1, events_list_2, start_day) ==
    LET merged == MergeOuter(events_list_1, events_list_2)
        date(p) == MergedDate(events_list_1, events_list_2, p)
        duplicated == \E p, q \in merged : p # q /\ date(p) = date(q)
        new_idx == [k \in 1..7 |-> start_day + (k - 1)]
        at(d) == {p \in merged : date(p) = d}
        row(d) == IF at(d) = {}
                  THEN [date |-> d, events_cal_1 |-> NaN, events_cal_2 |-> NaN,
                        weekday |-> WeekdayName(d)]
                  ELSE LET p == CHOOSE p \in at(d) : TRUE
                       IN [date |-> d,
                           events_cal_1 |-> IF p[1] # 0 THEN events_list_1[p[1]][2] ELSE NaN,
                           events_cal_2 |-> IF p[2] # 0 THEN events_list_2[p[2]][2] ELSE NaN,
                           weekday |-> WeekdayName(d)]
    IN IF duplicated THEN [raised |-> TRUE, rows |-> <<>>]
       ELSE [raised |-> FALSE, rows |-> [k \in 1..7 |-> row(new_idx[k])]]

VARIABLES
    today,            \* datetime.now().date()
    calendar,         \* start dates of the events of CALENDARID_WEEKMENU, as inserted
    sheet,            \* column last_date_on_menu of the spreadsheet, by row number
    difficulty_col,   \* column difficulty of the spreadsheet, by row number
    items,            \* what the two source calendars listed to the last run
    pc,               \* "idle", "plan" (in generate_weekmenu), "publish" (in add_weekmenu_to_calendar)
    runs,             \* runs started so far
    START_DAY,        \* first day of the window of the run
    recipes_df,       \* last_date_on_menu as parsed by get_recipes, by row number
    eligible_recipes, \* index of the eligible_recipes frame
    events_lists,     \* the two lists get_events_by_calendarId returned
    events_df,        \* the 7 rows of create_events_df
    weekmenu_df,      \* column 'recipe' of weekmenu_df, by position
    idx,              \* position of the loop in progress
    picks,            \* the calls of choose_recipe of this run
    outcome,          \* how the last run ended
    done              \* window start and chosen rows of the completed runs

vars == <<today, calendar, sheet, difficulty_col, items, pc, runs, START_DAY, recipes_df,
          eligible_recipes, events_lists, events_df, weekmenu_df, idx, picks, outcome, done>>

\* -------------------------------------------------------------- recipes code
\* recipes_df.last_date_on_menu after pd.to_datetime
ParsedSheet(sh) == [r \in Rows |-> to_datetime_dayfirst(sh[r])]

\* a recipe used on PREV_WEEK itself taken as eligible
get_recipes_le(sh, prev_week) ==
    {r \in Rows : \/ ParsedSheet(sh)[r] # NaT /\ ParsedSheet(sh)[r] <= prev_week
                  \/ ParsedSheet(sh)[r] = NaT}

\* the index of the eligible_recipes frame get_recipes returns
get_recipes(sh, prev_week) ==
    {r \in Rows : \/ ParsedSheet(sh)[r] # NaT /\ ParsedSheet(sh)[r] < prev_week
                  \/ ParsedSheet(sh)[r] = NaT}

\* eligible_recipes.query("difficulty == 'difficult'") inside choose_recipe
choose_query(difficulty, eligible) == {r \in eligible : difficulty_col[r] = "difficult"}

\* the same order with na_position='last'
SortsBefore_nalast(parsed, a, b) ==
    \/ parsed[a] # NaT /\ parsed[b] = NaT
    \/ parsed[a] # NaT /\ parsed[b] # NaT /\ parsed[a] < parsed[b]

\* a sorts strictly before b under sort_values('last_date_on_menu', na_position='first')
SortsBefore(parsed, a, b) ==
    \/ parsed[a] = NaT /\ parsed[b] # NaT
    \/ parsed[a] # NaT /\ parsed[b] # NaT /\ parsed[a] < parsed[b]

Min(a, b) == IF a < b THEN a ELSE b

\* the values .index.values[:5] can hold: a prefix of any order the sort can
\* give (rows with equal dates come in an unspecified order)
FirstFive(parsed, D) ==
    {C \in SUBSET D : /\ Cardinality(C) = Min(5, Cardinality(D))
                      /\ \A c \in C, q \in D \ C : ~SortsBefore(parsed, q, c)}

\* the values choose_recipe can draw with np.random.choice
choose_recipe(difficulty, parsed, eligible) ==
    UNION FirstFive(parsed, choose_query(difficulty, eligible))

\* the chosen row left in the frame
drop_nothing(eligible, choice_idx) == eligible

\* eligible_recipes.drop(choice_idx, inplace=True)
drop(eligible, choice_idx) == eligible \ {choice_idx}

\* the difficulty generate_weekmenu asks for on a day that is no tradition
Tier(r) ==
    IF r.weekday \in {"Saturday", "Sunday"} THEN "difficult"
    ELSE IF \/ r.events_cal_1 \in FREE_EVENTS \/ r.events_cal_2 \in FREE_EVENTS
            \/ r.events_cal_1 = NaN \/ r.events_cal_2 = NaN THEN "medium"
    ELSE "easy"

\* ------------------------------------------------------------- environment
Event(first, after, summary) ==
    [start |-> isoformat(first), end |-> isoformat(after), summary |-> summary]

\* what a source calendar can list for the window starting at s: nothing, a
\* one-day event, an event of five days from the fourth day, two events on one
\* day, an event with a label that is not selected
ItemsMenu(s) ==
    { <<>>,
      <<Event(s, s + 1, "free")>>,
      <<Event(s, s + 1, "WORK")>>,
      <<Event(s + 3, s + 8, "WORK")>>,
      <<Event(s, s + 1, "WORK"), Event(s, s + 1, "FREE")>>,
      <<Event(s, s + 1, "dentist")>> }

AllPairs(s) == ItemsMenu(s) \X ItemsMenu(s)

\* the smaller choice the runs of the whole script are followed with
RunMenu(s) ==
    { << <<>>, <<>> >>,
      << <<Event(s, s + 1, "WORK")>>, <<Event(s, s + 1, "WORK")>> >>,
      << <<Event(s, s + 1, "WORK"), Event(s, s + 1, "FREE")>>, <<>> >> }

\* the sheets the runs start from: every recipe used long ago on a day of its
\* own; the difficult recipes used five days before the first window
StdDifficulty == [r \in Rows |-> IF r = 2 THEN "easy" ELSE IF r = 3 THEN "medium" ELSE "difficult"]
OldDay(r) == DayNumber(r, 11)
InitSheets ==
    { [r \in Rows |-> strftime_dmY(OldDay(r))],
      [r \in Rows |-> IF StdDifficulty[r] = "difficult" THEN strftime_dmY(DayNumber(22, 11))
                      ELSE strftime_dmY(OldDay(r))] }

InitRun ==
    /\ items = << <<>>, <<>> >>
    /\ pc = "idle"
    /\ runs = 0
    /\ START_DAY = NaT
    /\ recipes_df = [r \in Rows |-> NaT]
    /\ eligible_recipes = {}
    /\ events_lists = << <<>>, <<>> >>
    /\ events_df = <<>>
    /\ weekmenu_df = <<>>
    /\ idx = 0
    /\ picks = <<>>
    /\ outcome = "none"
    /\ done = <<>>

\* Thursday 2020-11-26 holds the last plan event; it is Tuesday 2020-11-24
Init ==
    /\ today = DayNumber(24, 11)
    /\ calendar = <<DayNumber(26, 11)>>
    /\ sheet \in InitSheets
    /\ difficulty_col = StdDifficulty
    /\ InitRun

\* a day passes between two runs
Tick ==
    /\ pc = "idle"
    /\ today < MaxDay
    /\ today' = today + 1
    /\ UNCHANGED <<calendar, sheet, difficulty_col, items, pc, runs, START_DAY, recipes_df,
                   eligible_recipes, events_lists, events_df, weekmenu_df, idx, picks,
                   outcome, done>>

\* the test with <= for <
MenuEnds_le(date_last_recipe, now) == date_last_recipe - NB_DAYS_BEFORE <= now

\* the test of __main__ that the last week menu is about to end
MenuEnds(date_last_recipe, now) == date_last_recipe - NB_DAYS_BEFORE < now

\* the memory of the process is gone when it exits
Exit(how) ==
    /\ pc' = "idle"
    /\ outcome' = how
    /\ recipes_df' = [r \in Rows |-> NaT]
    /\ eligible_recipes' = {}
    /\ events_lists' = << <<>>, <<>> >>
    /\ events_df' = <<>>
    /\ weekmenu_df' = <<>>
    /\ idx' = 0

\* __main__ up to the call of generate_weekmenu, when the two source calendars
\* list the events listed[1] and listed[2]
RunStarts(listed) ==
    /\ pc = "idle"
    /\ runs < MaxRuns
    /\ runs' = runs + 1
    /\ LET DATE_LAST_RECIPE == get_date_last_event(calendar)
           start_day == DATE_LAST_RECIPE + 1
           PREV_WEEK == start_day - 7
       IN /\ START_DAY' = start_day
          /\ picks' = <<>>
          /\ IF MenuEnds(DATE_LAST_RECIPE, today)
             THEN LET events_list_1 == get_events_by_calendarId(listed[1], today)
                      events_list_2 == get_events_by_calendarId(listed[2], today)
                      df == create_events_df(events_list_1, events_list_2, start_day)
                  IN /\ items' = listed
                     /\ IF df.raised
                        THEN Exit("error_reindex")
                        ELSE /\ pc' = "plan"
                             /\ outcome' = "running"
                             /\ recipes_df' = ParsedSheet(sheet)
                             /\ eligible_recipes' = get_recipes(sheet, PREV_WEEK)
                             /\ events_lists' = <<events_list_1, events_list_2>>
                             /\ events_df' = df.rows
                             /\ weekmenu_df' = [k \in 1..7 |-> NaN]
                             /\ idx' = 1
             ELSE /\ Exit("not_finished")
                  /\ items' = items
    /\ UNCHANGED <<today, calendar, sheet, difficulty_col, done>>

StartRun == pc = "idle" /\ \E listed \in RunMenu(get_date_last_event(calendar) + 1) : RunStarts(listed)

\* the end of one pass of the loop of generate_weekmenu
NextSlot ==
    IF idx = 7 THEN pc' = "publish" /\ idx' = 1
    ELSE pc' = "plan" /\ idx' = idx + 1

\* what choose_recipe was called with and what it returned
Pick(choice_idx) ==
    [date |-> events_df[idx].date, difficulty |-> Tier(events_df[idx]),
     row |-> choice_idx, pool |-> eligible_recipes]

\* one pass of the loop of generate_weekmenu on a tradition day
PlanTradition ==
    /\ pc = "plan"
    /\ events_df[idx].weekday \in DOMAIN TRADITIONS
    /\ weekmenu_df' = [weekmenu_df EXCEPT ![idx] = TRADITIONS[events_df[idx].weekday]]
    /\ NextSlot
    /\ UNCHANGED <<today, calendar, sheet, difficulty_col, items, runs, START_DAY, recipes_df,
                   eligible_recipes, events_lists, events_df, picks, outcome, done>>

\* one pass of the loop on another day in which choose_recipe draws choice_idx
\* and update_sheet writes the date
PlanChoiceOf(choice_idx) ==
    /\ pc = "plan"
    /\ events_df[idx].weekday \notin DOMAIN TRADITIONS
    /\ choice_idx \in choose_recipe(Tier(events_df[idx]), recipes_df, eligible_recipes)
    /\ weekmenu_df' = [weekmenu_df EXCEPT ![idx] = choice_idx]
    /\ eligible_recipes' = drop(eligible_recipes, choice_idx)
    /\ picks' = Append(picks, Pick(choice_idx))
    /\ sheet' = [sheet EXCEPT ![choice_idx] = strftime_dmY(events_df[idx].date)]
    /\ NextSlot
    /\ UNCHANGED <<today, calendar, difficulty_col, items, runs, START_DAY, recipes_df,
                   events_lists, events_df, outcome, done>>

PlanChoice == \E choice_idx \in Rows : PlanChoiceOf(choice_idx)

\* np.random.choice raises ValueError on an empty array
PlanChoiceRaises ==
    /\ pc = "plan"
    /\ events_df[idx].weekday \notin DOMAIN TRADITIONS
    /\ choose_recipe(Tier(events_df[idx]), recipes_df, eligible_recipes) = {}
    /\ Exit("error_choice")
    /\ UNCHANGED <<today, calendar, sheet, difficulty_col, items, runs, START_DAY, picks, done>>

\* the failure of update_sheet caught and the loop going on
UpdateSheetFails_swallowed ==
    /\ pc = "plan"
    /\ events_df[idx].weekday \notin DOMAIN TRADITIONS
    /\ \E choice_idx \in choose_recipe(Tier(events_df[idx]), recipes_df, eligible_recipes) :
          /\ picks' = Append(picks, Pick(choice_idx))
          /\ weekmenu_df' = [weekmenu_df EXCEPT ![idx] = choice_idx]
          /\ eligible_recipes' = drop(eligible_recipes, choice_idx)
    /\ outcome' = "error_update"
    /\ NextSlot
    /\ UNCHANGED <<today, calendar, sheet, difficulty_col, items, runs, START_DAY, recipes_df,
                   events_lists, events_df, done>>

\* the request of update_sheet fails after choose_recipe returned
UpdateSheetFails ==
    /\ pc = "plan"
    /\ events_df[idx].weekday \notin DOMAIN TRADITIONS
    /\ \E choice_idx \in choose_recipe(Tier(events_df[idx]), recipes_df, eligible_recipes) :
          picks' = Append(picks, Pick(choice_idx))
    /\ Exit("error_update")
    /\ UNCHANGED <<today, calendar, sheet, difficulty_col, items, runs, START_DAY, done>>

\* one pass of the loop of add_weekmenu_to_calendar
InsertEvent ==
    /\ pc = "publish"
    /\ calendar' = Append(calendar, events_df[idx].date)
    /\ IF idx = 7
       THEN /\ Exit("done")
            /\ done' = Append(done, [start |-> START_DAY,
                                     rows |-> {picks[k].row : k \in 1..Len(picks)}])
       ELSE /\ idx' = idx + 1
            /\ UNCHANGED <<pc, outcome, done, recipes_df, eligible_recipes, events_lists,
                           events_df, weekmenu_df>>
    /\ UNCHANGED <<today, sheet, difficulty_col, items, runs, START_DAY, picks>>

\* the insert request fails
InsertFails ==
    /\ pc = "publish"
    /\ Exit("error_insert")
    /\ UNCHANGED <<today, calendar, sheet, difficulty_col, items, runs, START_DAY, picks, done>>

Next ==
    \/ Tick
    \/ StartRun
    \/ PlanTradition
    \/ PlanChoice
    \/ PlanChoiceRaises
    \/ UpdateSheetFails
    \/ InsertEvent
    \/ InsertFails

Spec == Init /\ [][Next]_vars

\* ------------------------------------------- the events of a run on their own
\* runs that start on any day from Tuesday 2020-11-24 on and are followed up
\* to the frame of create_events_df, with every pair of lists of ItemsMenu
InitEvents ==
    /\ today \in DayNumber(24, 11)..DayNumber(27, 11)
    /\ calendar = <<DayNumber(26, 11)>>
    /\ sheet = [r \in Rows |-> strftime_dmY(OldDay(r))]
    /\ difficulty_col = StdDifficulty
    /\ InitRun

StartRunAny == pc = "idle" /\ \E listed \in AllPairs(get_date_last_event(calendar) + 1) : RunStarts(listed)

NextEvents ==
    \/ Tick
    \/ StartRunAny

SpecEvents == InitEvents /\ [][NextEvents]_vars

\* ----------------------------------------------- the picks of a run on their own
\* the cells a recipe can hold at the start: never used, used on 5 or on 10
\* November, used on 25 November (within the week before the window)
PickCells == << <<>>, strftime_dmY(DayNumber(5, 11)), strftime_dmY(DayNumber(10, 11)),
                strftime_dmY(DayNumber(25, 11)) >>

\* one sheet for every number of recipes with each of the cells
PickSheets ==
    {[r \in Rows |-> PickCells[f[r]]] :
        f \in {g \in [Rows -> 1..4] : \A a, b \in Rows : a < b => g[a] <= g[b]}}

\* generate_weekmenu is entered for the window from Saturday 2020-11-28 with
\* no event in the source calendars and every recipe difficult
InitPick ==
    /\ today = DayNumber(26, 11)
    /\ calendar = <<DayNumber(27, 11)>>
    /\ sheet \in PickSheets
    /\ difficulty_col = [r \in Rows |-> "difficult"]
    /\ items = << <<>>, <<>> >>
    /\ pc = "plan"
    /\ runs = 1
    /\ START_DAY = DayNumber(28, 11)
    /\ recipes_df = ParsedSheet(sheet)
    /\ eligible_recipes = get_recipes(sheet, DayNumber(28, 11) - 7)
    /\ events_lists = << <<>>, <<>> >>
    /\ events_df = create_events_df(<<>>, <<>>, DayNumber(28, 11)).rows
    /\ weekmenu_df = [k \in 1..7 |-> NaN]
    /\ idx = 1
    /\ picks = <<>>
    /\ outcome = "running"
    /\ done = <<>>

NextPick ==
    \/ PlanTradition
    \/ PlanChoice
    \/ PlanChoiceRaises

SpecPick == InitPick /\ [][NextPick]_vars

\* --------------------------------------------------------------- properties
TypeOK ==
    /\ pc \in {"idle", "plan", "publish"}
    /\ eligible_recipes \subseteq Rows
    /\ runs \in 0..MaxRuns

PickedRows == {picks[k].row : k \in 1..Len(picks)}

\* the rows of pool that have the difficulty t
OfTier(pool, t) == {r \in pool : difficulty_col[r] = t}

\* C1: every recipe choose_recipe selected for a slot has the difficulty that
\* was asked for.
C1_DifficultyMatches ==
    \A k \in 1..Len(picks) : difficulty_col[picks[k].row] = picks[k].difficulty

\* C2: the rows chosen in a run are pairwise distinct, and a row once chosen
\* is not in the eligible frame for the rest of the run.
C2_NoRepeatInRun ==
    /\ \A j, k \in 1..Len(picks) : j # k => picks[j].row # picks[k].row
    /\ pc \in {"plan", "publish"} => PickedRows \cap eligible_recipes = {}
    /\ \A j, k \in 1..Len(picks) : j < k => picks[j].row \notin picks[k].pool

\* a second pick was made while the first chosen recipe was still of the
\* queried difficulty and other recipes were left
C2_Witness ==
    /\ pc \in {"plan", "publish"}
    /\ Len(picks) = 2
    /\ choose_query("difficult", eligible_recipes) # {}

\* the rows whose cell of the sheet holds a day of the week from start on
UsedInWindow(start) ==
    LET cells == {strftime_dmY(d) : d \in start..(start + 6)}
    IN {r \in Rows : sheet[r] \in cells}

\* C3: when the window of a run starts the day after the window of the last
\* completed run, no recipe whose persisted date lies in that earlier window
\* (first day included) is eligible or chosen in the run, and two completed
\* runs with consecutive windows share no chosen recipe.
C3_NoRepeatAcrossWeeks ==
    /\ \A i \in 1..Len(done), j \in 1..Len(done) :
          done[j].start = done[i].start + 7 => done[i].rows \cap done[j].rows = {}
    /\ (Len(done) > 0 /\ pc \in {"plan", "publish"} /\ START_DAY = done[Len(done)].start + 7) =>
          LET used == UsedInWindow(done[Len(done)].start)
          IN /\ used \cap eligible_recipes = {}
             /\ done[Len(done)].rows \subseteq used
             /\ \A k \in 1..Len(picks) :
                   /\ picks[k].row \notin done[Len(done)].rows
                   /\ picks[k].pool \cap used = {}

\* two runs completed on consecutive windows, the first having chosen a recipe
\* on the first day of its window
C3_Witness ==
    /\ Len(done) = 2
    /\ done[2].start = done[1].start + 7
    /\ done[2].rows # {}
    /\ \E r \in done[1].rows : sheet[r] = strftime_dmY(done[1].start)

\* C4: a run started while the last plan date minus the lead time is not
\* before today exits at once: nothing is chosen, the sheet and the week-menu
\* calendar stay as they are.
C4_EarlyExit ==
    [][(pc = "idle" /\ runs' = runs + 1
        /\ get_date_last_event(calendar) - NB_DAYS_BEFORE >= today)
       => (pc' = "idle" /\ outcome' = "not_finished" /\ picks' = <<>>
           /\ sheet' = sheet /\ calendar' = calendar)]_vars

\* a run has exited early with the last plan date 3 days ahead
C4_Witness ==
    /\ outcome = "not_finished"
    /\ get_date_last_event(calendar) = today + 3
    /\ NB_DAYS_BEFORE = 2

\* C5: a pick for tier t fails exactly when no eligible recipe of difficulty t
\* is left, and a slot is never filled with a recipe of another tier.
C5_AbortsIffTierEmpty ==
    /\ (pc = "plan" /\ events_df[idx].weekday \notin DOMAIN TRADITIONS) =>
          ((ENABLED PlanChoiceRaises)
             <=> OfTier(eligible_recipes, Tier(events_df[idx])) = {})
    /\ \A k \in 1..Len(picks) : picks[k].row \in OfTier(picks[k].pool, picks[k].difficulty)

\* C6: when the update of the sheet for the k-th chosen slot fails the run is
\* over: the dates written for the slots before k are in the sheet, the date
\* of slot k is not, and no event of the window is in the week-menu calendar.
C6_AbortKeepsEarlierWrites ==
    outcome = "error_update" =>
        /\ pc = "idle"
        /\ Len(picks) >= 1
        /\ \A k \in 1..(Len(picks) - 1) : sheet[picks[k].row] = strftime_dmY(picks[k].date)
        /\ sheet[picks[Len(picks)].row] # strftime_dmY(picks[Len(picks)].date)
        /\ \A d \in SeqToSet(calendar) : d < START_DAY
        /\ \A j, k \in 1..Len(picks) : j < k => picks[j].date < picks[k].date

\* the update failed for the second chosen slot of a run
C6_Witness ==
    /\ outcome = "error_update"
    /\ Len(picks) = 2

\* C10: the week-menu calendar never holds two events on one date: the dates
\* are inserted in ascending order, each after every date already there (each
\* entry is later than the entry before it).
C10_NoDuplicateDates ==
    \A i \in 1..(Len(calendar) - 1) : calendar[i] < calendar[i + 1]

\* a run inserts events after an earlier run stopped in the middle of its
\* inserts
C10_Witness ==
    /\ pc = "publish"
    /\ idx >= 2
    /\ Len(calendar) - idx > 0
    /\ (Len(calendar) - idx) % 7 # 0

\* the entries <<d, label>> of a list
Count(list, d, label) == Cardinality({k \in 1..Len(list) : list[k] = <<d, label>>})

\* the selected events of a calendar that owe an entry <<d, label>>: an event
\* of more than one day for each of its days in the window of the run, another
\* event for its start
Owed(listed, d, label) ==
    {k \in 1..Len(listed) :
        /\ upper(listed[k].summary) \in ALL_EVENTS
        /\ upper(listed[k].summary) = label
        /\ LET start == strptime_Ymd(listed[k].start)
               end == strptime_Ymd(listed[k].end)
           IN IF end - start > 1
              THEN start <= d /\ d < end /\ START_DAY <= d /\ d <= START_DAY + 6
              ELSE d = start}

\* C7: create_events_df gives a frame of 7 rows for whatever the two lists
\* hold, one row for each day from START_DAY on, in ascending order, with NaN
\* where a calendar has no entry on the day.
C7_SevenRows ==
    /\ outcome # "error_reindex"
    /\ pc = "plan" =>
          /\ Len(events_df) = 7
          /\ \A k \in 1..7 :
                /\ events_df[k].date = START_DAY + (k - 1)
                /\ (\A label \in ALL_EVENTS : Count(events_lists[1], events_df[k].date, label) = 0)
                      => events_df[k].events_cal_1 = NaN
                /\ (\A label \in ALL_EVENTS : Count(events_lists[2], events_df[k].date, label) = 0)
                      => events_df[k].events_cal_2 = NaN

\* C8: unfold_events_list gives one entry for each day in the window of the
\* run of every event of more than one day and none for its other days, and
\* one entry at its start for every other event.
C8_UnfoldClipsToWindow ==
    pc = "plan" =>
        \A c \in 1..2, label \in ALL_EVENTS, d \in (START_DAY - 7)..(START_DAY + 14) :
            Count(events_lists[c], d, label) = Cardinality(Owed(items[c], d, label))

\* cell a holds an earlier date than cell b (day, month, year)
EarlierCell(a, b) ==
    \/ a[3] < b[3]
    \/ a[3] = b[3] /\ a[2] < b[2]
    \/ a[3] = b[3] /\ a[2] = b[2] /\ a[1] < b[1]

\* recipe q was used less recently than recipe c, a recipe never used first
LessRecentlyUsed(q, c) ==
    \/ sheet[q] = <<>> /\ sheet[c] # <<>>
    \/ sheet[q] # <<>> /\ sheet[c] # <<>> /\ EarlierCell(sheet[q], sheet[c])

\* the recipes of D with fewer than 5 recipes of D used less recently
LeastRecentlyUsed(D) == {c \in D : Cardinality({q \in D : LessRecentlyUsed(q, c)}) < 5}

====
